---- MODULE Spec2Model ----
(***************************************************************************)
(* Model of the two mock HTTP endpoints of TestHttpServer:                 *)
(*   test-http-server.py         (echo logger server,  `script = "echo"`)  *)
(*   transaction-test-server.py  (fault-injection server, "fault")         *)
(* One run of the model is one run of one of the two scripts.              *)
(*                                                                         *)
(* Probabilities (fail_rate, random.random()) are counted in tenths:       *)
(* 0.3 is 3, 1.0 is 10, 1.5 is 15; random.random() draws from 0..9, that   *)
(* is [0.0, 1.0).                                                          *)
(***************************************************************************)
EXTENDS Integers, Sequences, FiniteSets, TLC

VARIABLES
    script,      \* which of the two scripts this process runs
    args,        \* the parsed command line (argparse namespace)
    pc,          \* position of the main thread
    config,      \* values captured by create_handler
    bound,       \* the listening socket exists
    exitStatus,  \* process exit status, -1 while running
    backlog,     \* connections established by clients, not yet accepted
    accepted,    \* connections accepted so far
    handlers,    \* handler instances whose request is in progress
    wire         \* what was exchanged on the connection accepted last

vars == <<script, args, pc, config, bound, exitStatus, backlog, accepted,
          handlers, wire>>

\* ------------------------------------------------------------------ bounds
MaxRequests == 3
MaxBacklog == 2

\* --------------------------------------------------------------- constants
DemoFailRate == 3
DemoDelayMs == 500

\* ------------------------------------------------------------------ inputs
Absent == "absent"
MessageIds == {"m1", "m2"}

\* JSON objects: every envelope field is optional; `properties` is either a
\* mapping or some other truthy JSON value (a string).
ObjectBodies ==
    { [kind |-> "object", messageId |-> m, correlationId |-> c, properties |-> p] :
        m \in MessageIds \cup {Absent},
        c \in {Absent, "c1"},
        p \in {Absent, "mapping", "nonmapping"} }

OtherBody(k) ==
    [kind |-> k, messageId |-> Absent, correlationId |-> Absent, properties |-> Absent]

\* nonobject: valid JSON whose top level is not an object, e.g. [1,2]
\* malformed: text that is not JSON, e.g. {bad json
\* empty:     zero bytes
\* badutf8:   bytes that are not UTF-8, e.g. 0xFF
Bodies ==
    ObjectBodies \cup
    { OtherBody(k) : k \in {"nonobject", "malformed", "empty", "badutf8"} }

ContentLengths == {"match", "absent", "nonint"}

\* The socket operations of one request that raise OSError:
\*   read  rfile.read
\*   hdr   the header flush of the designated response (end_headers)
\*   body  the body write of the designated response
\*   ehdr  the header flush of the response sent by the exception path
\*   ebody the body write of the response sent by the exception path
WriteOps == {"hdr", "body", "ehdr", "ebody"}
FaultPatterns ==
    { {}, {"read"}, {"hdr"}, {"body"},
      {"hdr", "body", "ehdr", "ebody"}, {"body", "ehdr", "ebody"} }

Requests ==
    [body : Bodies, contentLength : ContentLengths, faults : FaultPatterns]

RandomValues == 0..9

FaultArgs ==
    [script : {"fault"}, fail_rate : {0 - 1, 0, 3, 10, 15},
     delay_ms : {0, 200}, demo : BOOLEAN]
EchoArgs == [script |-> "echo", fail_rate |-> 0, delay_ms |-> 0, demo |-> FALSE]

NoConfig == [fail_rate |-> 0, delay_ms |-> 0]
NoRequest == [body |-> OtherBody("empty"), contentLength |-> "absent", faults |-> {}]
NoOutput ==
    [request_count |-> 0, slept |-> 0, raised |-> "none", escaped |-> FALSE,
     statusLines |-> <<>>, bodies |-> <<>>]
NoExchange == [conn |-> 0, done |-> FALSE, req |-> NoRequest, out |-> NoOutput]

\* ------------------------------------------------------- library semantics
\* dict.get(key, default) on a parsed JSON object
Get(obj, key, default) == IF obj[key] = Absent THEN default ELSE obj[key]

\* rfile.read(int(Content-Length)): an absent header reads zero bytes
ReadBody(req) ==
    IF req.contentLength = "absent" THEN OtherBody("empty") ELSE req.body

\* json.loads(text) raises JSONDecodeError on text that is not JSON
IsJSON(body) == body.kind \in {"object", "nonobject"}

\* One response put on the socket: send_response + send_header + end_headers
\* (one flush of the header buffer) followed by one wfile.write of the body.
\* `sofar` is the outcome so far and `buffer` the status lines still held in
\* the header buffer.  A flush that raises leaves the buffer as it is; a
\* later flush sends it along with the new status line.
SendResponse(sofar, buffer, status, bodyRec, hdrOp, bodyOp, faults) ==
    IF hdrOp \in faults
    THEN [out |-> sofar, buffer |-> Append(buffer, status), exc |-> "OSError"]
    ELSE LET sent == [sofar EXCEPT
                        !.statusLines = @ \o Append(buffer, status)]
         IN  IF bodyOp \in faults
             THEN [out |-> sent, buffer |-> <<>>, exc |-> "OSError"]
             ELSE [out |-> [sent EXCEPT !.bodies = Append(@, bodyRec)],
                   buffer |-> <<>>, exc |-> "none"]

\* -------------------------------------------------------------- echo server
\* the default page of send_error(code, message)
ErrorPage(message) ==
    [kind |-> "html", error |-> message, messageId |-> Absent, requestCount |-> 0]

\* mutant: the acknowledgment names the correlation id
EchoSuccessBodyWrongField(message_data) ==
    [kind |-> "success", error |-> "none",
     messageId |-> Get(message_data, "correlationId", "null"), requestCount |-> 0]

EchoSuccessBody(message_data) ==
    [kind |-> "success", error |-> "none",
     messageId |-> Get(message_data, "messageId", "null"), requestCount |-> 0]

\* the exception raised while the message is read, parsed and logged
EchoLogException(req) ==
    LET body == ReadBody(req) IN
    IF req.contentLength = "nonint" THEN "ValueError"
    ELSE IF "read" \in req.faults THEN "OSError"
    ELSE IF body.kind = "badutf8" THEN "UnicodeDecodeError"
    ELSE IF ~IsJSON(body) THEN "JSONDecodeError"
    ELSE IF body.kind = "nonobject" THEN "AttributeError"
    ELSE IF body.properties = "nonmapping" THEN "AttributeError"
    ELSE "none"

\* mutant: the outer clause is `except OSError`
EchoCatchesOnlyOSError(exc) == exc = "OSError"

\* `except Exception` of the echo server's do_POST
EchoCatches(exc) == exc # "none"

EchoDoPOST(req) ==
    LET start == [NoOutput EXCEPT !.raised = EchoLogException(req)]
        inner ==
            IF start.raised = "none"
            THEN SendResponse(start, <<>>, 200, EchoSuccessBody(ReadBody(req)),
                              "hdr", "body", req.faults)
            ELSE IF start.raised = "JSONDecodeError"
            THEN SendResponse(start, <<>>, 400, ErrorPage("Invalid JSON"),
                              "hdr", "body", req.faults)
            ELSE [out |-> start, buffer |-> <<>>, exc |-> start.raised]
        tried == [inner.out EXCEPT
                    !.raised = IF inner.exc = "none" THEN start.raised ELSE inner.exc]
    IN  IF inner.exc = "none" THEN tried
        ELSE IF ~EchoCatches(inner.exc) THEN [tried EXCEPT !.escaped = TRUE]
        ELSE LET outer == SendResponse(tried, inner.buffer, 500,
                                       ErrorPage("Internal server error"),
                                       "ehdr", "ebody", req.faults)
             IN  [outer.out EXCEPT !.escaped = (outer.exc # "none")]

\* ----------------------------------------------------- fault-injection server
failure_types ==
    << [status |-> 500, message |-> "Internal Server Error"],
       [status |-> 503, message |-> "Service Unavailable"],
       [status |-> 502, message |-> "Bad Gateway"],
       [status |-> 504, message |-> "Gateway Timeout"] >>

\* a handler instance as create_handler and __init__ build it
NewHandler(cfg) ==
    [fail_rate |-> cfg.fail_rate, delay_ms |-> cfg.delay_ms, request_count |-> 0]

\* the exception raised before `timestamp` is assigned
FaultReadException(req) ==
    LET body == ReadBody(req) IN
    IF req.contentLength = "nonint" THEN "ValueError"
    ELSE IF "read" \in req.faults THEN "OSError"
    ELSE IF body.kind = "badutf8" THEN "UnicodeDecodeError"
    ELSE IF IsJSON(body) /\ body.kind # "object" THEN "AttributeError"
    ELSE "none"

\* message_id after the inner try/except
FaultMessageId(body) ==
    IF ~IsJSON(body) THEN "unknown" ELSE Get(body, "messageId", "unknown")

FaultFailureBody(status_message, message_id, count) ==
    [kind |-> "failure", error |-> status_message, messageId |-> message_id,
     requestCount |-> count]

FaultSuccessBody(message_id, count) ==
    [kind |-> "success", error |-> "none", messageId |-> message_id,
     requestCount |-> count]

FaultExceptionBody(exc, count) ==
    [kind |-> "exception", error |-> exc, messageId |-> Absent,
     requestCount |-> count]

\* do_POST of one handler instance `h`; `draw` is random.random() and `pick`
\* the index random.choice takes from failure_types.
FaultDoPOST(h, req, draw, pick) ==
    LET count == h.request_count + 1
        slept == IF h.delay_ms > 0 THEN h.delay_ms ELSE 0
        should_fail == draw < h.fail_rate
        early == FaultReadException(req)
        start == [NoOutput EXCEPT !.request_count = count, !.slept = slept,
                                  !.raised = early]
        message_id == FaultMessageId(ReadBody(req))
        status == IF should_fail THEN failure_types[pick].status ELSE 200
        bodyRec == IF should_fail
                   THEN FaultFailureBody(failure_types[pick].message,
                                         message_id, count)
                   ELSE FaultSuccessBody(message_id, count)
        sent == SendResponse(start, <<>>, status, bodyRec, "hdr", "body", req.faults)
    IN  IF early # "none"
        THEN \* the except clause reads `timestamp`, which is unbound here:
             \* UnboundLocalError leaves do_POST before anything is sent
             [start EXCEPT !.escaped = TRUE]
        ELSE IF sent.exc = "none" THEN sent.out
        ELSE LET tried == [sent.out EXCEPT !.raised = sent.exc]
                 handled == SendResponse(tried, sent.buffer, 500,
                                         FaultExceptionBody(sent.exc, count),
                                         "ehdr", "ebody", req.faults)
             IN  [handled.out EXCEPT !.escaped = (handled.exc # "none")]

\* ---------------------------------------------------------------- startup
\* mutant: explicit flags win over --demo
EffectiveConfigFlagsFirst(a) ==
    [fail_rate |-> a.fail_rate, delay_ms |-> a.delay_ms]

\* the demo override of main()
EffectiveConfig(a) ==
    IF a.demo
    THEN [fail_rate |-> DemoFailRate, delay_ms |-> DemoDelayMs]
    ELSE [fail_rate |-> a.fail_rate, delay_ms |-> a.delay_ms]

\* `0.0 <= args.fail_rate <= 1.0`
ValidFailRate(rate) == 0 <= rate /\ rate <= 10

\* mutant: ThreadingHTTPServer hands the request to a new thread
ProcessRequestThreaded == "select"

\* HTTPServer.process_request handles the request on the thread that accepted
\* it: the main thread is busy until the handler returns.
ProcessRequest == "handling"

Init ==
    /\ script \in {"echo", "fault"}
    /\ args \in IF script = "fault" THEN FaultArgs ELSE {EchoArgs}
    /\ pc = "start"
    /\ config = NoConfig
    /\ bound = FALSE
    /\ exitStatus = 0 - 1
    /\ backlog = 0
    /\ accepted = 0
    /\ handlers = <<>>
    /\ wire = NoExchange

\* run_test_server / main up to serve_forever; the bind fails when the port
\* is taken and the uncaught OSError ends the process with status 1.
Main ==
    /\ pc = "start"
    /\ UNCHANGED <<script, args, backlog, accepted, handlers, wire>>
    /\ LET cfg == IF script = "fault" THEN EffectiveConfig(args) ELSE NoConfig
       IN  /\ config' = cfg
           /\ IF script = "fault" /\ ~ValidFailRate(cfg.fail_rate)
              THEN pc' = "exited" /\ exitStatus' = 1 /\ bound' = FALSE
              ELSE \E portFree \in BOOLEAN :
                     IF portFree
                     THEN pc' = "select" /\ bound' = TRUE /\ UNCHANGED exitStatus
                     ELSE pc' = "exited" /\ exitStatus' = 1 /\ bound' = FALSE

\* a client connects; the kernel queues the connection
Connect ==
    /\ bound
    /\ backlog < MaxBacklog
    /\ accepted + backlog < MaxRequests
    /\ backlog' = backlog + 1
    /\ UNCHANGED <<script, args, pc, config, bound, exitStatus, accepted,
                   handlers, wire>>

\* serve_forever: accept one connection and construct its handler
Accept ==
    /\ pc = "select"
    /\ backlog > 0
    /\ backlog' = backlog - 1
    /\ accepted' = accepted + 1
    /\ handlers' = [c \in DOMAIN handlers \cup {accepted + 1} |->
                      IF c = accepted + 1 THEN NewHandler(config) ELSE handlers[c]]
    /\ wire' = [NoExchange EXCEPT !.conn = accepted + 1]
    /\ pc' = ProcessRequest
    /\ UNCHANGED <<script, args, config, bound, exitStatus>>

\* the handler of connection c runs do_POST to its end; the connection is
\* closed and the main thread returns to serve_forever's loop, also when an
\* exception left do_POST (socketserver reports it and goes on).
DoPOST(c) ==
    /\ c \in DOMAIN handlers
    /\ \E req \in Requests, draw \in RandomValues, pick \in DOMAIN failure_types :
         wire' = [conn |-> c, done |-> TRUE, req |-> req,
                  out |-> IF script = "fault"
                          THEN FaultDoPOST(handlers[c], req, draw, pick)
                          ELSE EchoDoPOST(req)]
    /\ handlers' = [d \in DOMAIN handlers \ {c} |-> handlers[d]]
    /\ pc' = "select"
    /\ UNCHANGED <<script, args, config, bound, exitStatus, backlog, accepted>>

\* Ctrl+C: KeyboardInterrupt ends serve_forever and the process
Interrupt ==
    /\ pc \in {"select", "handling"}
    /\ pc' = "stopped"
    /\ bound' = FALSE
    /\ exitStatus' = 0
    /\ handlers' = <<>>
    /\ UNCHANGED <<script, args, config, backlog, accepted, wire>>

Next ==
    \/ Main
    \/ Connect
    \/ Accept
    \/ \E c \in 1..MaxRequests : DoPOST(c)
    \/ Interrupt

Spec == Init /\ [][Next]_vars

\* ================================================================ claims
FaultDone == script = "fault" /\ wire.done
EchoDone == script = "echo" /\ wire.done
\* the request arrived whole and every socket operation succeeded
Undisturbed(req) == req.faults = {} /\ req.contentLength # "nonint"

\* C1: in the fault server the requestCount carried by the response to the
\* k-th request of a run equals k.
C1_RequestCountIsRequestIndex ==
    FaultDone =>
        \A i \in DOMAIN wire.out.bodies :
            wire.out.bodies[i].requestCount = wire.conn

\* C2: in the fault server every exception raised while a request is handled
\* is caught in the handler and answered with HTTP 500 and a body carrying
\* "Server exception: <message>" and requestCount; none leaves the handler.
\* (Requests whose exception-path writes fail as well are left out.)
C2_ExceptionsBecomeHttp500 ==
    ( /\ FaultDone
      /\ wire.out.raised # "none"
      /\ wire.req.faults \cap {"ehdr", "ebody"} = {} )
    => /\ ~wire.out.escaped
       /\ wire.out.statusLines # <<>>
       /\ wire.out.statusLines[Len(wire.out.statusLines)] = 500
       /\ wire.out.bodies # <<>>
       /\ wire.out.bodies[Len(wire.out.bodies)] =
            FaultExceptionBody(wire.out.raised, wire.out.request_count)

\* C3: with failRate = 0.0 every request, whether its body is a JSON object,
\* another JSON value, malformed or empty, is answered with HTTP 200.
C3_ZeroFailRateAlways200 ==
    ( /\ FaultDone
      /\ config.fail_rate = 0
      /\ Undisturbed(wire.req)
      /\ wire.req.body.kind \in {"object", "nonobject", "malformed", "empty"} )
    => wire.out.statusLines = <<200>>

\* C4: with failRate = 1.0 every request, whatever its body, is answered with
\* a status in {500, 502, 503, 504}.
C4_FullFailRateAlways5xx ==
    ( /\ FaultDone
      /\ config.fail_rate = 10
      /\ Undisturbed(wire.req)
      /\ wire.req.body.kind \in {"object", "nonobject", "malformed", "empty"} )
    => /\ Len(wire.out.statusLines) = 1
       /\ wire.out.statusLines[1] \in {500, 502, 503, 504}

\* C5: in the fault server extracting messageId from the body never raises;
\* a body that is not JSON gets the id "unknown" and the designated success
\* or failure response carries it.
C5_MessageIdExtractionNeverRaises ==
    (FaultDone /\ Undisturbed(wire.req))
    => /\ wire.out.raised = "none"
       /\ ~IsJSON(ReadBody(wire.req)) =>
            /\ Len(wire.out.statusLines) = 1
            /\ wire.out.statusLines[1] \in {200, 500, 502, 503, 504}
            /\ Len(wire.out.bodies) = 1
            /\ wire.out.bodies[1].kind \in {"success", "failure"}
            /\ wire.out.bodies[1].messageId = "unknown"

\* C6: the echo server answers every request, whatever its body, with exactly
\* one response whose status is 400, 200 or 500, provided the socket accepts
\* what is written; no exception leaves the handler and the listener stays
\* bound for the next request.
C6_EchoAlwaysAnswers ==
    EchoDone =>
        /\ (pc = "stopped" \/ (bound /\ pc \in {"select", "handling"}))
        /\ wire.req.faults \cap WriteOps = {} =>
             /\ ~wire.out.escaped
             /\ Len(wire.out.statusLines) = 1
             /\ wire.out.statusLines[1] \in {400, 200, 500}

\* C6 witness: the second request of a run carried bytes that are not UTF-8
\* and was answered 500 by a server that goes on listening.
C6_Witness ==
    /\ EchoDone
    /\ wire.conn = 2
    /\ wire.req.body.kind = "badutf8"
    /\ wire.req.contentLength = "match"
    /\ wire.out.statusLines = <<500>>
    /\ pc = "select"
    /\ bound

\* C7 (as stated): the echo server answers every JSON object that has a
\* messageId field with HTTP 200 and the same messageId.
C7_EchoReturnsMessageId ==
    ( /\ EchoDone
      /\ wire.req.faults = {}
      /\ wire.req.contentLength = "match"
      /\ wire.req.body.kind = "object"
      /\ wire.req.body.messageId # Absent )
    => /\ wire.out.statusLines = <<200>>
       /\ Len(wire.out.bodies) = 1
       /\ wire.out.bodies[1].messageId = wire.req.body.messageId

\* C7 (amended): the echo server answers every JSON object that has a
\* messageId field and whose properties field is absent or a mapping with
\* HTTP 200 and the same messageId.
C7_EchoReturnsMessageIdOfEnvelope ==
    ( /\ EchoDone
      /\ wire.req.faults = {}
      /\ wire.req.contentLength = "match"
      /\ wire.req.body.kind = "object"
      /\ wire.req.body.messageId # Absent
      /\ wire.req.body.properties # "nonmapping" )
    => /\ wire.out.statusLines = <<200>>
       /\ Len(wire.out.bodies) = 1
       /\ wire.out.bodies[1].kind = "success"
       /\ wire.out.bodies[1].messageId = wire.req.body.messageId

\* C7 witness: an envelope with messageId m2, a correlation id and a
\* properties mapping was acknowledged with messageId m2.
C7_Witness ==
    /\ EchoDone
    /\ wire.req.body =
         [kind |-> "object", messageId |-> "m2", correlationId |-> "c1",
          properties |-> "mapping"]
    /\ wire.req.contentLength = "match"
    /\ wire.out.statusLines = <<200>>
    /\ wire.out.bodies[1].messageId = "m2"

\* C8: at fault-server startup the demo override is resolved first; an
\* effective failRate outside [0.0, 1.0] ends the process with status 1 and
\* no listener, and a listener exists only with the effective failRate in
\* range.
C8_StartupValidation ==
    (script = "fault" /\ pc # "start") =>
        LET rate == IF args.demo THEN 3 ELSE args.fail_rate
            delay == IF args.demo THEN 500 ELSE args.delay_ms
        IN  /\ config = [fail_rate |-> rate, delay_ms |-> delay]
            /\ (rate < 0 \/ rate > 10) =>
                 (pc = "exited" /\ exitStatus = 1 /\ ~bound)
            /\ bound => (0 <= config.fail_rate /\ config.fail_rate <= 10)

\* C8 witness: --demo together with --fail-rate 1.5 is listening with the
\* effective failRate 0.3.
C8_Witness ==
    /\ script = "fault"
    /\ args.demo
    /\ args.fail_rate = 15
    /\ bound
    /\ config.fail_rate = 3

\* C9: in both servers at most one request is in progress: while a handler
\* runs the main thread accepts nothing, and the handler that runs belongs to
\* the connection accepted last.
C9_OneRequestAtATime ==
    /\ Cardinality(DOMAIN handlers) <= 1
    /\ pc = "select" => handlers = <<>>
    /\ handlers # <<>> =>
         (pc = "handling" /\ DOMAIN handlers = {accepted} /\ ~wire.done)

\* C9 witness: a request of a fault server with a delay is in progress while
\* another client's connection waits to be accepted.
C9_Witness ==
    /\ script = "fault"
    /\ config.delay_ms > 0
    /\ handlers # <<>>
    /\ backlog > 0

\* C10: each request gets at most one status line and one body on its
\* connection, also when a write fails after the headers went out.
C10_AtMostOneResponse ==
    wire.done =>
        /\ Len(wire.out.statusLines) <= 1
        /\ Len(wire.out.bodies) <= 1

====
